---- MODULE Spec2Model ----
(***************************************************************************)
(* CSV Ball-Stick Graph (src/DataVisualizer.py): a Blender add-on that     *)
(* reads a CSV file and creates one sphere per row and one cylinder per    *)
(* pair of consecutive rows.                                               *)
(*                                                                         *)
(* Floats are modelled as exact rationals <<n, d>> in lowest terms with    *)
(* d > 0; <<0, 0>> is NaN (the minimum of an empty column).  Rounding of   *)
(* binary floating point is outside the model.                             *)
(***************************************************************************)
EXTENDS Integers, Sequences, FiniteSets, TLC

VARIABLES
    disk,      \* the files the add-on can be pointed at: path -> file
    props,     \* context.scene.csv_visualizer (CSVVisualizerProps)
    objects,   \* the scene's objects, in creation order
    graphs,    \* number of graphs created so far ("Graph created." reports)
    result,    \* the last run: what ran, its return value and its report
    load_filepath,  \* CSV_OT_LoadFile.filepath of its last run ("" before any)
    call       \* the arguments of a script calling create_ball_stick_model

vars == <<disk, props, objects, graphs, result, load_filepath, call>>

----------------------------------------------------------------------------
(* Bounds of the model *)

MaxRows == 3      \* rows of the CSV table on disk
MaxGraphs == 2    \* successful visualize actions in one behaviour

----------------------------------------------------------------------------
(* Float arithmetic *)

NaN == <<0, 0>>
Zero == <<0, 1>>
One == <<1, 1>>

Abs(n) == IF n < 0 THEN -n ELSE n

RECURSIVE GCD(_, _)
GCD(a, b) == IF b = 0 THEN a ELSE GCD(b, a % b)

Rat(n, d) ==
    IF d = 0 THEN NaN
    ELSE LET g == GCD(Abs(n), Abs(d))
             s == IF d < 0 THEN -1 ELSE 1
         IN  <<(s * n) \div g, (s * d) \div g>>

IsNaN(a) == a[2] = 0

FAdd(a, b) == IF IsNaN(a) \/ IsNaN(b) THEN NaN
              ELSE Rat(a[1] * b[2] + b[1] * a[2], a[2] * b[2])
FSub(a, b) == IF IsNaN(a) \/ IsNaN(b) THEN NaN
              ELSE Rat(a[1] * b[2] - b[1] * a[2], a[2] * b[2])
FMul(a, b) == IF IsNaN(a) \/ IsNaN(b) THEN NaN
              ELSE Rat(a[1] * b[1], a[2] * b[2])
FDiv(a, b) == IF IsNaN(a) \/ IsNaN(b) THEN NaN
              ELSE Rat(a[1] * b[2], a[2] * b[1])
\* Comparisons with NaN are false, except !=, which is true
FLe(a, b) == ~IsNaN(a) /\ ~IsNaN(b) /\ a[1] * b[2] <= b[1] * a[2]
FNe(a, b) == IsNaN(a) \/ IsNaN(b) \/ a # b

\* Series.min() / Series.max(): NaN for an empty series
RECURSIVE SeriesMin(_)
SeriesMin(s) ==
    IF Len(s) = 0 THEN NaN
    ELSE IF Len(s) = 1 THEN s[1]
    ELSE LET m == SeriesMin(Tail(s)) IN IF FLe(s[1], m) THEN s[1] ELSE m

RECURSIVE SeriesMax(_)
SeriesMax(s) ==
    IF Len(s) = 0 THEN NaN
    ELSE IF Len(s) = 1 THEN s[1]
    ELSE LET m == SeriesMax(Tail(s)) IN IF FLe(m, s[1]) THEN s[1] ELSE m

----------------------------------------------------------------------------
(* Vectors (mathutils.Vector) *)

VAdd(u, v) == <<FAdd(u[1], v[1]), FAdd(u[2], v[2]), FAdd(u[3], v[3])>>
VSub(u, v) == <<FSub(u[1], v[1]), FSub(u[2], v[2]), FSub(u[3], v[3])>>
VHalf(u) == <<FDiv(u[1], <<2, 1>>), FDiv(u[2], <<2, 1>>), FDiv(u[3], <<2, 1>>)>>
\* The square of Vector.length (the length itself need not be rational)
VLengthSq(u) == FAdd(FAdd(FMul(u[1], u[1]), FMul(u[2], u[2])), FMul(u[3], u[3]))

----------------------------------------------------------------------------
(* CSV files and pandas *)

\* The text of a CSV cell and the float it converts to; a text outside the
\* domain does not convert ("could not convert string to float")
FloatOf == ("0" :> <<0, 1>>) @@ ("3" :> <<3, 1>>) @@ ("4" :> <<4, 1>>) @@ ("10" :> <<10, 1>>)

\* Rows of the tables the layout function is called on
RowSet == { <<"0", "0">>, <<"10", "0">>, <<"10", "10">>, <<"3", "4">>,
            <<"abc", "4">>, <<"3", "abc">> }

\* Rows of the files the operators are run on
FileRows == { <<"3", "4">>, <<"10", "10">>, <<"abc", "4">>, <<"3", "abc">> }

TablesOver(rows) == UNION { [1..n -> rows] : n \in 0..MaxRows }

Header == <<"x", "y">>

DataPath == "data.csv"
BrokenPath == "broken.csv"
Paths == {DataPath, BrokenPath}

\* Names the user types into the column fields
XColumnInputs == {"x", "z"}
YColumnInputs == {"y", "z"}

\* pd.read_csv(path): raises when the file is missing or does not parse,
\* else the DataFrame: its columns and, per column, the cells in row order
read_csv(d, path) ==
    IF path \notin DOMAIN d
    THEN [raised |-> TRUE, e |-> "No such file or directory: '" \o path \o "'"]
    ELSE IF ~d[path].parses
    THEN [raised |-> TRUE, e |-> d[path].error]
    ELSE [raised |-> FALSE,
          df |-> [columns |-> {Header[k] : k \in 1..Len(Header)},
                  len |-> Len(d[path].rows),
                  data |-> [c \in {Header[k] : k \in 1..Len(Header)} |->
                              LET k == CHOOSE j \in 1..Len(Header) : Header[j] = c
                              IN  [i \in 1..Len(d[path].rows) |-> d[path].rows[i][k]]]]]

\* Series.astype(float): raises on the first cell that is not a number
astype_float(series) ==
    IF \E i \in 1..Len(series) : series[i] \notin DOMAIN FloatOf
    THEN [raised |-> TRUE,
          e |-> "could not convert string to float: '"
                \o series[CHOOSE i \in 1..Len(series) :
                             /\ series[i] \notin DOMAIN FloatOf
                             /\ \A j \in 1..(i - 1) : series[j] \in DOMAIN FloatOf]
                \o "'"]
    ELSE [raised |-> FALSE, vals |-> [i \in 1..Len(series) |-> FloatOf[series[i]]]]

----------------------------------------------------------------------------
(* Helper functions *)

StickColor == << <<4, 5>>, <<4, 5>>, <<4, 5>>, One >>

\* add_sphere: the object primitive_uv_sphere_add creates, named and coloured
add_sphere(location, radius, name, color) ==
    [type |-> "sphere", name |-> name, location |-> location,
     radius |-> radius, color |-> color]

\* Mutant: the cylinder is placed at the far end, not halfway
add_cylinder_at_end(p1, p2, radius, name, color) ==
    LET direction == VSub(p2, p1)
    IN  [type |-> "cylinder", name |-> name, location |-> VAdd(p1, direction),
         radius |-> radius, color |-> color,
         depthSq |-> VLengthSq(direction), track |-> direction]

\* add_cylinder_between: a cylinder centred between p1 and p2, as long as
\* their distance (kept as its square), its Z axis tracking p2 - p1
add_cylinder_between(p1, p2, radius, name, color) ==
    LET start == p1
        end == p2
        direction == VSub(end, start)
        location == VAdd(start, VHalf(direction))
    IN  [type |-> "cylinder", name |-> name, location |-> location,
         radius |-> radius, color |-> color,
         depthSq |-> VLengthSq(direction), track |-> direction]

\* Mutant: a constant column is normalized to 0
normalize_flat(vals) ==
    LET lo == SeriesMin(vals)
        hi == SeriesMax(vals)
    IN  IF FNe(hi, lo)
        THEN [i \in 1..Len(vals) |-> FDiv(FSub(vals[i], lo), FSub(hi, lo))]
        ELSE [i \in 1..Len(vals) |-> Zero]

\* Mutant: the shifted values are divided by the maximum, not by the range
normalize_by_max(vals) ==
    LET lo == SeriesMin(vals)
        hi == SeriesMax(vals)
    IN  IF FNe(hi, lo)
        THEN [i \in 1..Len(vals) |-> FDiv(FSub(vals[i], lo), hi)]
        ELSE vals

\* norm = (vals - min) / (max - min) if max != min else vals
normalize(vals) ==
    LET lo == SeriesMin(vals)
        hi == SeriesMax(vals)
    IN  IF FNe(hi, lo)
        THEN [i \in 1..Len(vals) |-> FDiv(FSub(vals[i], lo), FSub(hi, lo))]
        ELSE vals

\* pos = (x * spacing, y * spacing, 0)
position(x, y, spacing) == <<FMul(x, spacing), FMul(y, spacing), Zero>>

\* Mutant: the gradient divides by the last index, so that it ends at red
ball_color_over_last(i, n) ==
    << Rat(i, n - 1), FSub(One, Rat(i, n - 1)), <<4, 5>>, One >>

\* color = (i / len(df), 1 - i / len(df), 0.8, 1), i the 0-based row index
ball_color(i, n) == << Rat(i, n), FSub(One, Rat(i, n)), <<4, 5>>, One >>

\* Mutant: the first loop starts at the second row
balls_skip_first(points, n, ball_radius) ==
    [k \in 1..(Len(points) - 1) |->
        add_sphere(points[k + 1], ball_radius, "Ball_" \o ToString(k),
                   ball_color(k, n))]

\* The spheres of the first loop, Ball_0 .. Ball_{n-1}
balls(points, n, ball_radius) ==
    [k \in 1..Len(points) |->
        add_sphere(points[k], ball_radius, "Ball_" \o ToString(k - 1),
                   ball_color(k - 1, n))]

\* The cylinders of the second loop, Stick_0 .. Stick_{n-2}
sticks(points, stick_radius) ==
    [k \in 1..(Len(points) - 1) |->
        add_cylinder_between(points[k], points[k + 1], stick_radius,
                             "Stick_" \o ToString(k - 1), StickColor)]

\* Mutant: the y column is converted row by row inside the first loop, so
\* the spheres of the rows before an unconvertible value are already made
model_objects_lazy(df, x_col, y_col, spacing, ball_radius, stick_radius) ==
    IF x_col \notin df.columns
    THEN [raised |-> TRUE, e |-> "'" \o x_col \o "'", created |-> <<>>]
    ELSE LET x_vals == astype_float(df.data[x_col]) IN
    IF x_vals.raised
    THEN [raised |-> TRUE, e |-> x_vals.e, created |-> <<>>]
    ELSE IF y_col \notin df.columns
    THEN [raised |-> TRUE, e |-> "'" \o y_col \o "'", created |-> <<>>]
    ELSE LET y_vals == astype_float(df.data[y_col])
             norm_x == normalize(x_vals.vals)
         IN
    IF y_vals.raised
    THEN LET good == CHOOSE g \in 0..df.len :
                        /\ \A k \in 1..g : df.data[y_col][k] \in DOMAIN FloatOf
                        /\ df.data[y_col][g + 1] \notin DOMAIN FloatOf
             points == [k \in 1..good |->
                           position(norm_x[k], FloatOf[df.data[y_col][k]], spacing)]
         IN  [raised |-> TRUE, e |-> y_vals.e,
              created |-> balls(points, df.len, ball_radius)]
    ELSE LET norm_y == normalize(y_vals.vals)
             points == [k \in 1..Len(norm_x) |->
                           position(norm_x[k], norm_y[k], spacing)]
         IN  [raised |-> FALSE, e |-> "",
              created |-> balls(points, df.len, ball_radius)
                          \o sticks(points, stick_radius)]

\* The body of create_ball_stick_model: the objects it creates, in order,
\* up to the exception it raises, if any (df[col] raises KeyError for a
\* column that is missing)
model_objects(df, x_col, y_col, spacing, ball_radius, stick_radius) ==
    IF x_col \notin df.columns
    THEN [raised |-> TRUE, e |-> "'" \o x_col \o "'", created |-> <<>>]
    ELSE LET x_vals == astype_float(df.data[x_col]) IN
    IF x_vals.raised
    THEN [raised |-> TRUE, e |-> x_vals.e, created |-> <<>>]
    ELSE IF y_col \notin df.columns
    THEN [raised |-> TRUE, e |-> "'" \o y_col \o "'", created |-> <<>>]
    ELSE LET y_vals == astype_float(df.data[y_col]) IN
    IF y_vals.raised
    THEN [raised |-> TRUE, e |-> y_vals.e, created |-> <<>>]
    ELSE LET norm_x == normalize(x_vals.vals)
             norm_y == normalize(y_vals.vals)
             points == [k \in 1..Len(norm_x) |->
                           position(norm_x[k], norm_y[k], spacing)]
         IN  [raised |-> FALSE, e |-> "",
              created |-> balls(points, df.len, ball_radius)
                          \o sticks(points, stick_radius)]

\* Mutant: the function first clears the scene of earlier geometry
create_ball_stick_model_fresh(scene, df, x_col, y_col, spacing, ball_radius, stick_radius) ==
    LET m == model_objects(df, x_col, y_col, spacing, ball_radius, stick_radius)
    IN  [raised |-> m.raised, e |-> m.e,
         scene |-> IF m.raised THEN scene ELSE m.created]

\* Mutant: the function rejects a spacing that is not positive
create_ball_stick_model_checked(scene, df, x_col, y_col, spacing, ball_radius, stick_radius) ==
    LET m == model_objects(df, x_col, y_col, spacing, ball_radius, stick_radius)
    IN  IF FLe(spacing, Zero)
        THEN [raised |-> TRUE, e |-> "spacing must be positive", scene |-> scene]
        ELSE [raised |-> m.raised, e |-> m.e, scene |-> scene \o m.created]

\* create_ball_stick_model: the scene afterwards (every object it creates
\* is added to the scene), and whether it raised
create_ball_stick_model(scene, df, x_col, y_col, spacing, ball_radius, stick_radius) ==
    LET m == model_objects(df, x_col, y_col, spacing, ball_radius, stick_radius)
    IN  [raised |-> m.raised, e |-> m.e, scene |-> scene \o m.created]

----------------------------------------------------------------------------
(* Properties *)

MinSpacing == <<1, 10>>

\* The defaults of CSVVisualizerProps
DefaultProps ==
    [filepath |-> "", x_column |-> "x", y_column |-> "y",
     spacing |-> <<5, 1>>, ball_radius |-> <<1, 5>>, stick_radius |-> <<1, 20>>,
     file_loaded |-> FALSE, error_message |-> ""]

\* Values the user types into the spacing field
SpacingInputs == { <<-5, 1>>, <<0, 1>>, <<5, 1>> }

\* FloatProperty(min=0.1): a value below the minimum is stored as the minimum
clamp_spacing(v) == IF FLe(v, MinSpacing) THEN MinSpacing ELSE v

----------------------------------------------------------------------------
(* Initial state *)

NoResult == [op |-> "", ret |-> "", level |-> "", message |-> ""]

NoCall == [x_col |-> "", y_col |-> "", spacing |-> NaN]

\* A parsable CSV file holding table t next to one that does not parse
DiskWith(t) ==
    (DataPath :> [parses |-> TRUE, rows |-> t, error |-> ""])
    @@ (BrokenPath :> [parses |-> FALSE, rows |-> <<>>,
                       error |-> "Error tokenizing data"])

Init ==
    /\ \E t \in TablesOver(FileRows) : disk = DiskWith(t)
    /\ props = DefaultProps
    /\ objects = <<>>
    /\ graphs = 0
    /\ result = NoResult
    /\ load_filepath = ""
    /\ call = NoCall

----------------------------------------------------------------------------
(* Operators *)

\* The user edits a field of the panel
SetXColumn(c) ==
    /\ props' = [props EXCEPT !.x_column = c]
    /\ UNCHANGED <<disk, objects, graphs, result, load_filepath, call>>

SetYColumn(c) ==
    /\ props' = [props EXCEPT !.y_column = c]
    /\ UNCHANGED <<disk, objects, graphs, result, load_filepath, call>>

SetSpacing(v) ==
    /\ props' = [props EXCEPT !.spacing = clamp_spacing(v)]
    /\ UNCHANGED <<disk, objects, graphs, result, load_filepath, call>>

\* Mutant: a failed load stores the message but leaves the flag as it was
load_file_keep_flag(p, d, path) ==
    LET r == read_csv(d, path)
    IN  IF ~r.raised
        THEN [p EXCEPT !.filepath = path, !.file_loaded = TRUE, !.error_message = ""]
        ELSE [p EXCEPT !.error_message = "Error reading CSV: " \o r.e]

\* CSV_OT_LoadFile.execute, self.filepath = path
load_file(p, d, path) ==
    LET r == read_csv(d, path)
    IN  IF ~r.raised
        THEN [p EXCEPT !.filepath = path, !.file_loaded = TRUE, !.error_message = ""]
        ELSE [p EXCEPT !.file_loaded = FALSE,
                       !.error_message = "Error reading CSV: " \o r.e]

LoadFile(path) ==
    /\ props' = load_file(props, disk, path)
    /\ result' = [op |-> "csv.load_file", ret |-> "FINISHED",
                  level |-> "", message |-> ""]
    /\ load_filepath' = path
    /\ UNCHANGED <<disk, objects, graphs, call>>

\* Mutant: the check fails only when both columns are missing
columns_missing_both(p, df) ==
    p.x_column \notin df.columns /\ p.y_column \notin df.columns

\* props.x_column not in df.columns or props.y_column not in df.columns
columns_missing(p, df) ==
    p.x_column \notin df.columns \/ p.y_column \notin df.columns

\* CSV_OT_VisualizeGraph.execute: the scene afterwards, the return value and
\* the report
visualize_graph(p, d, scene) ==
    LET r == read_csv(d, p.filepath)
    IN  IF r.raised
        THEN [scene |-> scene, ret |-> "CANCELLED", level |-> "ERROR",
              message |-> "Failed to visualize: " \o r.e]
        ELSE IF columns_missing(p, r.df)
        THEN [scene |-> scene, ret |-> "CANCELLED", level |-> "ERROR",
              message |-> "Column '" \o p.x_column \o "' or '" \o p.y_column
                          \o "' not found in CSV."]
        ELSE LET m == create_ball_stick_model(scene, r.df, p.x_column, p.y_column,
                          p.spacing, p.ball_radius, p.stick_radius)
             IN  IF m.raised
                 THEN [scene |-> m.scene, ret |-> "CANCELLED", level |-> "ERROR",
                       message |-> "Failed to visualize: " \o m.e]
                 ELSE [scene |-> m.scene, ret |-> "FINISHED", level |-> "INFO",
                       message |-> "Graph created."]

Visualize ==
    /\ graphs < MaxGraphs
    /\ LET v == visualize_graph(props, disk, objects)
       IN  /\ objects' = v.scene
           /\ result' = [op |-> "csv.visualize_graph", ret |-> v.ret,
                         level |-> v.level, message |-> v.message]
           /\ graphs' = IF v.ret = "FINISHED" THEN graphs + 1 ELSE graphs
    /\ UNCHANGED <<disk, props, load_filepath, call>>

Next ==
    \/ \E c \in XColumnInputs : SetXColumn(c)
    \/ \E c \in YColumnInputs : SetYColumn(c)
    \/ \E v \in SpacingInputs : SetSpacing(v)
    \/ \E path \in Paths : LoadFile(path)
    \/ Visualize

Spec == Init /\ [][Next]_vars

----------------------------------------------------------------------------
(* The layout function called on its own: a script reads the table and calls
   create_ball_stick_model with arguments of its choice *)

SpacingArgs == { <<-5, 1>>, <<0, 1>>, <<1, 10>>, <<5, 1>> }

InitLayout ==
    /\ \E t \in TablesOver(RowSet) : disk = DiskWith(t)
    /\ props = DefaultProps
    /\ objects = <<>>
    /\ graphs = 0
    /\ result = NoResult
    /\ load_filepath = ""
    /\ call \in [x_col : XColumnInputs, y_col : YColumnInputs, spacing : SpacingArgs]

CallLayout ==
    /\ graphs < MaxGraphs
    /\ LET m == create_ball_stick_model(objects, read_csv(disk, DataPath).df,
                      call.x_col, call.y_col, call.spacing,
                      props.ball_radius, props.stick_radius)
       IN  /\ objects' = m.scene
           /\ result' = [op |-> "create_ball_stick_model",
                         ret |-> IF m.raised THEN "raised" ELSE "returned",
                         level |-> "", message |-> m.e]
           /\ graphs' = IF m.raised THEN graphs ELSE graphs + 1
    /\ UNCHANGED <<disk, props, load_filepath, call>>

NextLayout == CallLayout

SpecLayout == InitLayout /\ [][NextLayout]_vars

----------------------------------------------------------------------------
(* Vocabulary of the properties *)

Rows == disk[DataPath].rows
N == Len(Rows)
Column(c) == LET k == CHOOSE j \in 1..Len(Header) : Header[j] = c
             IN  [i \in 1..N |-> Rows[i][k]]
Numeric(c) == \A i \in 1..N : Column(c)[i] \in DOMAIN FloatOf
Floats(c) == [i \in 1..N |-> FloatOf[Column(c)[i]]]
HasColumn(c) == \E j \in 1..Len(Header) : Header[j] = c

CountOf(s, t) == Cardinality({q \in 1..Len(s) : s[q].type = t})

\* A run of the visualize operator that changed something: only this
\* operator leaves its idname in result
VisualizeRan ==
    /\ result'.op = "csv.visualize_graph"
    /\ (result' # result \/ objects' # objects \/ graphs' # graphs)
\* Such a run under the properties as they are before the step
VisualizeStep == props' = props /\ VisualizeRan
\* The visualize operator reads a parsable file
ReadsData == props.filepath = DataPath
\* The objects a step adds to the scene
Created == SubSeq(objects', Len(objects) + 1, Len(objects'))
Kept == Len(objects') >= Len(objects) /\ SubSeq(objects', 1, Len(objects)) = objects

\* Objects per graph of the table on disk, and the q-th object of graph j
RunLen == IF N = 0 THEN 0 ELSE 2 * N - 1
ObjectAt(j, q) == objects[(j - 1) * RunLen + q]

----------------------------------------------------------------------------
\* C1: a visualize action on an N-row table (N >= 0) whose two configured
\* columns exist and hold only numbers succeeds, and what it adds to the
\* scene is exactly N spheres and max(0, N-1) cylinders.
C1_SphereAndCylinderCount ==
    [][ (VisualizeStep /\ ReadsData
            /\ HasColumn(props.x_column) /\ HasColumn(props.y_column)
            /\ Numeric(props.x_column) /\ Numeric(props.y_column))
        => /\ result'.ret = "FINISHED"
           /\ Kept
           /\ Len(Created) = N + (IF N = 0 THEN 0 ELSE N - 1)
           /\ CountOf(Created, "sphere") = N
           /\ CountOf(Created, "cylinder") = (IF N = 0 THEN 0 ELSE N - 1) ]_vars

\* A three-row table visualized twice: the second action again added 3 + 2
C1_Witness ==
    /\ result.op = "csv.visualize_graph" /\ result.ret = "FINISHED"
    /\ N = 3 /\ graphs = 2 /\ Len(objects) = 10

\* C2: when the configured x or y column is not a column of the CSV, the
\* visualize action returns CANCELLED, reports an error naming both
\* configured columns, and leaves the scene's objects as they were.
C2_MissingColumnCancels ==
    [][ (VisualizeStep /\ ReadsData
            /\ (~HasColumn(props.x_column) \/ ~HasColumn(props.y_column)))
        => /\ result'.ret = "CANCELLED"
           /\ result'.level = "ERROR"
           /\ result'.message = "Column '" \o props.x_column \o "' or '"
                                 \o props.y_column \o "' not found in CSV."
           /\ objects' = objects ]_vars

\* Only the y column is missing, in a scene that already holds a graph
C2_Witness ==
    /\ result.op = "csv.visualize_graph" /\ result.ret = "CANCELLED"
    /\ result.message = "Column 'x' or 'z' not found in CSV."
    /\ props.x_column = "x" /\ props.y_column = "z"
    /\ Len(objects) > 0

\* C3: when a value of the configured x or y column does not convert to a
\* number, the visualize action returns CANCELLED with an error report and
\* creates nothing, whichever row holds the value.
C3_BadValueAbortsWholeLayout ==
    [][ (VisualizeStep /\ ReadsData
            /\ HasColumn(props.x_column) /\ HasColumn(props.y_column)
            /\ (~Numeric(props.x_column) \/ ~Numeric(props.y_column)))
        => /\ result'.ret = "CANCELLED"
           /\ result'.level = "ERROR"
           /\ objects' = objects ]_vars

\* The unconvertible value is in the last of three rows, in the y column
C3_Witness ==
    /\ result.op = "csv.visualize_graph" /\ result.ret = "CANCELLED"
    /\ result.message = "Failed to visualize: could not convert string to float: 'abc'"
    /\ N = 3 /\ Rows[1] = <<"3", "4">> /\ Rows[2] = <<"10", "10">>
    /\ Rows[3] = <<"3", "abc">>
    /\ objects = <<>>

----------------------------------------------------------------------------
\* A visualize action that reads a table whose configured columns exist
\* and hold only numbers
VisualizesNumbers ==
    /\ VisualizeStep /\ ReadsData
    /\ HasColumn(props.x_column) /\ HasColumn(props.y_column)
    /\ Numeric(props.x_column) /\ Numeric(props.y_column)

\* Every row of column c holds the same value
Constant(c) == N >= 1 /\ \A i \in 1..N : Floats(c)[i] = Floats(c)[1]

\* C5: when every row has the same value v in a column (the single-row table
\* included), the sphere coordinate on that axis is v * spacing for every
\* row; the single row (3,4) gives, with success, one sphere at
\* (3*spacing, 4*spacing, 0) and no cylinder.
C5_ConstantColumnKeepsRawValue ==
    [][ VisualizesNumbers
        => /\ Constant(props.x_column)
                => \A i \in 1..N : Created[i].location[1]
                                     = FMul(Floats(props.x_column)[i], props.spacing)
           /\ Constant(props.y_column)
                => \A i \in 1..N : Created[i].location[2]
                                     = FMul(Floats(props.y_column)[i], props.spacing)
           /\ Rows = << <<"3", "4">> >>
                => /\ result'.ret = "FINISHED"
                   /\ Len(Created) = 1
                   /\ Created[1].type = "sphere"
                   /\ Created[1].location = << FMul(<<3, 1>>, props.spacing),
                                               FMul(<<4, 1>>, props.spacing), Zero >> ]_vars

\* The single row (3,4) at the default spacing 5: one sphere at (15, 20, 0)
C5_Witness ==
    /\ result.op = "csv.visualize_graph" /\ result.ret = "FINISHED"
    /\ Rows = << <<"3", "4">> >> /\ graphs = 1
    /\ Len(objects) = 1
    /\ objects[1].location = << <<15, 1>>, <<20, 1>>, Zero >>

\* C7: the spheres of one visualize action have colour (i/N, 1 - i/N, 0.8, 1)
\* for row index i of N rows, so for i < j red does not decrease and green
\* does not increase.
C7_ColourGradientMonotonic ==
    [][ (VisualizesNumbers /\ result'.ret = "FINISHED")
        => /\ \A i \in 1..N :
                /\ FMul(Created[i].color[1], <<N, 1>>) = <<i - 1, 1>>
                /\ FAdd(Created[i].color[1], Created[i].color[2]) = One
                /\ Created[i].color[3] = <<4, 5>>
                /\ Created[i].color[4] = One
           /\ \A i, j \in 1..N :
                i < j => /\ FLe(Created[i].color[1], Created[j].color[1])
                         /\ FLe(Created[j].color[2], Created[i].color[2]) ]_vars

\* Three spheres whose red channels are 0, 1/3, 2/3
C7_Witness ==
    /\ result.op = "csv.visualize_graph" /\ result.ret = "FINISHED"
    /\ N = 3 /\ graphs = 1
    /\ objects[1].color[1] = Zero
    /\ objects[2].color[1] = <<1, 3>>
    /\ objects[3].color[1] = <<2, 3>> /\ objects[3].color[2] = <<1, 3>>

\* The file read by the last load-file action parses
Parses(path) == path \in DOMAIN disk /\ disk[path].parses
Loaded == load_filepath # ""

\* The flag and the message are those the last load-file action leaves
FlagTracksLastLoad ==
    /\ props.file_loaded <=> (Loaded /\ Parses(load_filepath))
    /\ (Loaded /\ Parses(load_filepath)) => props.error_message = ""
    /\ (Loaded /\ ~Parses(load_filepath)) => Len(props.error_message) > 0

\* C8: the loaded flag is true exactly when the most recent load-file action
\* parsed its file: a failed load leaves it false with a non-empty error
\* message, a successful one leaves it true with an empty message, and a
\* visualize action changes neither the flag nor the message.
C8_LoadedFlagTracksLastLoad ==
    [][ /\ FlagTracksLastLoad
        /\ FlagTracksLastLoad'
        /\ VisualizeRan => /\ props'.file_loaded = props.file_loaded
                           /\ props'.error_message = props.error_message ]_vars

\* A good load, a graph, then a failed load followed by a visualize action:
\* the flag is false although the stored path still names the good file
C8_Witness ==
    /\ load_filepath = BrokenPath
    /\ ~props.file_loaded
    /\ props.error_message = "Error reading CSV: Error tokenizing data"
    /\ props.filepath = DataPath
    /\ result.op = "csv.visualize_graph" /\ graphs = 2

\* C10: no action removes or changes an object created earlier, so the
\* number of objects never decreases, and after k successful visualize
\* actions on the N-row file the scene holds k*N spheres and
\* k*max(0, N-1) cylinders.
C10_GeometryAccumulates ==
    [][ /\ Kept
        /\ CountOf(objects', "sphere") = graphs' * N
        /\ CountOf(objects', "cylinder") = graphs' * (IF N = 0 THEN 0 ELSE N - 1)
        /\ Len(objects') = graphs' * RunLen ]_vars

\* Two graphs of a three-row table, made at different spacings
C10_Witness ==
    /\ graphs = 2 /\ N = 3
    /\ CountOf(objects, "sphere") = 6 /\ CountOf(objects, "cylinder") = 4
    /\ objects[1].location # objects[6].location

----------------------------------------------------------------------------
(* The layout function on its own (SpecLayout) *)

\* The call's two columns exist and hold only numbers
CallNumbers ==
    /\ HasColumn(call.x_col) /\ HasColumn(call.y_col)
    /\ Numeric(call.x_col) /\ Numeric(call.y_col)

\* The column the call lays out along axis a (1: x, 2: y)
AxisColumn(a) == IF a = 1 THEN call.x_col ELSE call.y_col

Distinct(c) == \E i, j \in 1..N : Floats(c)[i] # Floats(c)[j]
IsMin(c, i) == \A k \in 1..N : FLe(Floats(c)[i], Floats(c)[k])
IsMax(c, i) == \A k \in 1..N : FLe(Floats(c)[k], Floats(c)[i])

\* C4: for a column with at least two distinct values, the row holding the
\* minimum is normalized to 0 and the row holding the maximum to 1, and, the
\* spacing being one the spacing property admits (at least 0.1), every
\* sphere's coordinate on that axis lies in [0, spacing].
C4_MinMaxNormalization ==
    \A a \in 1..2 :
        (CallNumbers /\ Distinct(AxisColumn(a)))
        => LET c == AxisColumn(a)
               norm == normalize(Floats(c))
           IN  /\ \A i \in 1..N :
                     /\ FLe(Zero, norm[i]) /\ FLe(norm[i], One)
                     /\ IsMin(c, i) => norm[i] = Zero
                     /\ IsMax(c, i) => norm[i] = One
               /\ FLe(MinSpacing, call.spacing)
                     => \A j \in 1..graphs : \A i \in 1..N :
                           LET coord == ObjectAt(j, i).location[a]
                           IN  /\ FLe(Zero, coord) /\ FLe(coord, call.spacing)
                               /\ IsMin(c, i) => coord = Zero
                               /\ IsMax(c, i) => coord = call.spacing

\* Rows (0,0), (3,4), (10,10) at spacing 5: the middle sphere is at (3/2, 2, 0)
C4_Witness ==
    /\ result.ret = "returned" /\ graphs = 1
    /\ Rows = << <<"0", "0">>, <<"3", "4">>, <<"10", "10">> >>
    /\ call.spacing = <<5, 1>>
    /\ objects[1].location = << Zero, Zero, Zero >>
    /\ objects[2].location = << <<3, 2>>, <<2, 1>>, Zero >>
    /\ objects[3].location = << <<5, 1>>, <<5, 1>>, Zero >>

\* C6 as stated: called with spacing <= 0, create_ball_stick_model fails and
\* creates no geometry.
C6_NonPositiveSpacingFails ==
    (FLe(call.spacing, Zero) /\ result.op = "create_ball_stick_model")
    => result.ret = "raised" /\ objects = <<>>

\* C6, amended: create_ball_stick_model does not validate spacing.  Called
\* with spacing <= 0 it raises only for a missing column or an unconvertible
\* value; on an N-row table whose two columns exist and hold only numbers it
\* returns, having created N spheres at (normX*spacing, normY*spacing, 0)
\* and max(0, N-1) cylinders.
C6_NoSpacingValidation ==
    (FLe(call.spacing, Zero) /\ result.op = "create_ball_stick_model")
    => /\ result.ret = "raised" <=> ~CallNumbers
       /\ result.ret = "returned"
            => /\ graphs >= 1
               /\ Len(objects) = graphs * RunLen
               /\ CountOf(objects, "sphere") = graphs * N
               /\ CountOf(objects, "cylinder") = graphs * (IF N = 0 THEN 0 ELSE N - 1)
               /\ \A j \in 1..graphs : \A i \in 1..N :
                     ObjectAt(j, i).location
                       = << FMul(normalize(Floats(call.x_col))[i], call.spacing),
                            FMul(normalize(Floats(call.y_col))[i], call.spacing),
                            Zero >>

\* Spacing -5 on rows (0,0), (10,0), (10,10): three spheres, mirrored
C6_Witness ==
    /\ call.spacing = <<-5, 1>>
    /\ result.op = "create_ball_stick_model" /\ result.ret = "returned"
    /\ Rows = << <<"0", "0">>, <<"10", "0">>, <<"10", "10">> >>
    /\ Len(objects) = 5
    /\ objects[3].location = << <<-5, 1>>, <<-5, 1>>, Zero >>

\* C9: one run creates the spheres in row order (Ball_0, Ball_1, ...) and
\* then the cylinders in row order (Stick_0, ...); cylinder i is centred at
\* the midpoint of spheres i and i+1 and spans from one to the other.  Rows
\* (0,0), (10,0), (10,10) at spacing 5 give spheres at (0,0,0), (5,0,0),
\* (5,5,0) and two cylinders of length 5, (0,0,0)->(5,0,0) and
\* (5,0,0)->(5,5,0).
C9_RowOrderAndConnectors ==
    /\ \A j \in 1..graphs :
          /\ \A i \in 1..N :
                /\ ObjectAt(j, i).type = "sphere"
                /\ ObjectAt(j, i).name = "Ball_" \o ToString(i - 1)
                /\ ObjectAt(j, i).location
                     = << FMul(normalize(Floats(call.x_col))[i], call.spacing),
                          FMul(normalize(Floats(call.y_col))[i], call.spacing),
                          Zero >>
          /\ \A i \in 1..(N - 1) :
                LET stick == ObjectAt(j, N + i)
                    p1 == ObjectAt(j, i).location
                    p2 == ObjectAt(j, i + 1).location
                IN  /\ stick.type = "cylinder"
                    /\ stick.name = "Stick_" \o ToString(i - 1)
                    /\ VAdd(stick.location, stick.location) = VAdd(p1, p2)
                    /\ VSub(stick.location, VHalf(stick.track)) = p1
                    /\ VAdd(stick.location, VHalf(stick.track)) = p2
                    /\ stick.depthSq = VLengthSq(VSub(p2, p1))
    /\ (/\ graphs >= 1
        /\ Rows = << <<"0", "0">>, <<"10", "0">>, <<"10", "10">> >>
        /\ call.spacing = <<5, 1>>)
       => /\ objects[1].location = << Zero, Zero, Zero >>
          /\ objects[2].location = << <<5, 1>>, Zero, Zero >>
          /\ objects[3].location = << <<5, 1>>, <<5, 1>>, Zero >>
          /\ objects[4].location = << <<5, 2>>, Zero, Zero >>
          /\ objects[4].track = << <<5, 1>>, Zero, Zero >>
          /\ objects[4].depthSq = <<25, 1>>
          /\ objects[5].location = << <<5, 1>>, <<5, 2>>, Zero >>
          /\ objects[5].track = << Zero, <<5, 1>>, Zero >>
          /\ objects[5].depthSq = <<25, 1>>

\* The scenario's table laid out at spacing 5
C9_Witness ==
    /\ result.ret = "returned" /\ graphs = 1
    /\ Rows = << <<"0", "0">>, <<"10", "0">>, <<"10", "10">> >>
    /\ call.spacing = <<5, 1>>
    /\ Len(objects) = 5
    /\ objects[5].name = "Stick_1"

====
